---- MODULE Spec2Model ----
(***************************************************************************)
(* DragonBridge.py: the clipboard poller (ClipboardBridge), the lazily     *)
(* created global bridge (get_bridge) and the two host entry points       *)
(* (ToggleBridge.trigger, SettingsDialog._open_settings).                  *)
(*                                                                         *)
(* Threads of the model: the host threads that call the entry points and   *)
(* the public methods of the bridge, and the loop threads start() spawns.  *)
(* One step of the model is one statement (or one call into the operating  *)
(* system or the host) of the Python source; the places where the          *)
(* interpreter may switch threads lie between them.                        *)
(***************************************************************************)
EXTENDS Integers, Sequences, FiniteSets, TLC

\* ------------------------------------------------------------ bounds
\* Number of clipboard writes by other processes that a run may contain.
MaxSeq == 3
\* Number of loop threads a run may spawn.
MaxThreads == 2
\* Length of the texts handed to process_voice_commands.
MaxLen == 5
\* Number of items of a settings file that holds a JSON array.
MaxItems == 2

\* ------------------------------------------------------------ domains
\* The host threads calling into the component. A bridge is named after the
\* host thread whose get_bridge() call constructed it.
Hosts == {1, 2}
\* Python's None, for _bridge_instance, self.thread and a host's join target.
None == 0
Threads == 1 .. MaxThreads
\* Clipboard text payloads. ("" is what get_clipboard_text() returns when the
\* clipboard holds no text or cannot be opened.)
Texts == {"a", "b"}
\* load_config's default poll_interval_ms.
DefaultPoll == 300
\* The timeout of self.thread.join(timeout=2), in milliseconds.
JoinTimeoutMs == 2000
\* Values the numeric field of the settings dialog may hold (100 .. 2000): the
\* default and the largest.
Polls == {DefaultPoll, JoinTimeoutMs}

VARIABLES
    clipSeq,        \* GetClipboardSequenceNumber()
    clipText,       \* the clipboard's CF_UNICODETEXT payload, "" if none
    file,           \* poll_interval_ms in settings.json
    instance,       \* _bridge_instance: None or a bridge
    built,          \* the ClipboardBridge objects constructed so far
    running,        \* self.running, per bridge
    thread,         \* self.thread, per bridge: None or a loop thread
    config,         \* self.config["poll_interval_ms"], per bridge
    last_seq,       \* self.last_seq, per bridge
    last_text,      \* self.last_text, per bridge
    host,           \* per host thread: pc, where its call stands; op, the
                    \* call; bridge, its local `bridge`; val, the dialog's
                    \* poll value; join, the thread object join() waits for
    tpc,            \* per loop thread: where it stands in _monitor_loop
    tself,          \* per loop thread: its bridge (self)
    poll_sec,       \* per loop thread: local poll_sec
    current_seq,    \* per loop thread: local current_seq
    current_text,   \* per loop thread: local current_text
    dispatched,     \* the texts handed to _process_clipboard_text, in order
                    \* (the latest two of them)
    out,            \* what the last step showed: "", a notification, or a
                    \* printed traceback
    serial,         \* history: what the calls so far ask of the bridge, 1 for
                    \* Running and 0 for Stopped (a toggle asks for the other
                    \* state); -1 once two such calls have overlapped
    halted,         \* history: the loop threads whose bridge's stop() has
                    \* cleared the flag since they were spawned
    quiet,          \* history, per bridge: start() has returned, and since
                    \* then the clipboard was not written and stop() not called
    fault,          \* history: a clipboard read has returned no text or
                    \* raised, the host has raised, or a join has timed out
    atStart,        \* history, per bridge: self.config["poll_interval_ms"]
                    \* when start() last set the flag
    origin,         \* history, per loop thread: the sequence number the
                    \* clipboard had when current_text was read (0: none)
    lastSrc,        \* history: the origin of the text dispatched last (0
                    \* before the first dispatch; -1: no origins are kept)
    call,           \* a call of one of the functions without state: its name
                    \* and its arguments
    ret             \* what that call has returned: <<>> before it has, <<v>>
                    \* once it has returned v

vars == <<clipSeq, clipText, file, instance, built, running, thread, config,
          last_seq, last_text, host, tpc, tself,
          poll_sec, current_seq, current_text, dispatched, out,
          serial, halted, quiet, fault, atStart, origin, lastSrc, call, ret>>

clipVars == <<clipSeq, clipText>>
bridgeVars == <<running, thread, config, last_seq, last_text>>
threadVars == <<tpc, tself, poll_sec, current_seq, current_text>>
histVars == <<serial, halted, quiet, fault>>
orderVars == <<origin, lastSrc>>
pureVars == <<call, ret>>
auxVars == <<atStart, orderVars, pureVars>>

\* The origins of the dispatched texts are kept.
Tracked == lastSrc # -1

\* ------------------------------------------------------------ settings file
\* The defaults of load_config.
defaults ==
    ("poll_interval_ms" :> DefaultPoll) @@ ("auto_space" :> TRUE)
      @@ ("show_notifications" :> TRUE)

\* What json.load may return for an item of an array: a two-item array whose
\* first item is a string (dict.update takes it for a key and a value), or an
\* array of one item (dict.update raises ValueError on it).
Pairs == {<<"poll_interval_ms", JoinTimeoutMs>>, <<"extra", DefaultPoll>>}
Single == <<DefaultPoll>>
Items == Pairs \cup {Single}

\* What the settings file may be: missing; unreadable (makedirs or open
\* raises); not JSON (json.load raises); a JSON object; a JSON array; a JSON
\* number.
Contents ==
    {[kind |-> k] : k \in {"missing", "unreadable", "garbage", "number"}}
      \cup {[kind |-> "object", entries |-> e] :
              e \in UNION {[K -> {JoinTimeoutMs}] :
                              K \in SUBSET {"poll_interval_ms"}}}
      \cup {[kind |-> "array", items |-> q] :
              q \in UNION {[1 .. n -> Items] : n \in 0 .. MaxItems}}

\* defaults.update(saved) on a sequence: dict.update stores the pairs one by
\* one and raises at the first item that is no pair; load_config catches the
\* exception and returns the dictionary as it then is.
RECURSIVE update(_, _)
update(d, items) ==
    IF items = <<>> THEN d
    ELSE IF Head(items) \in Pairs
      THEN update((Head(items)[1] :> Head(items)[2]) @@ d, Tail(items))
    ELSE d

\* load_config() on a settings file that holds content.
load_config_of(content) ==
    CASE content.kind \in {"missing", "unreadable", "garbage"} -> defaults
      [] content.kind = "number" -> defaults
      [] content.kind = "object" -> content.entries @@ defaults
      [] content.kind = "array" -> update(defaults, content.items)

\* ------------------------------------------------------------ clipboard
\* get_clipboard_seq(): the sequence number of the clipboard.
get_clipboard_seq == clipSeq

\* get_clipboard_text(): the text payload, or "" when OpenClipboard,
\* GetClipboardData or GlobalLock fails (the clipboard is held by another
\* process, or holds no text).
get_clipboard_text == {clipText, ""}

\* load_config() on the settings file as save_config writes it: the poll
\* interval it returns.
load_config ==
    load_config_of([kind |-> "object",
                    entries |-> ("poll_interval_ms" :> file)])["poll_interval_ms"]

\* No function without state is called.
NoCall == [fn |-> "none"]

\* A host thread that is in no call.
Idle == [pc |-> "idle", op |-> "none", bridge |-> None, val |-> DefaultPoll,
         join |-> None]

\* The history of faults after a step that failed (failed = TRUE) or not.
Fails(failed) == fault' = (fault \/ failed)

\* A loop thread that has been started and has not left _monitor_loop.
Alive(t) == tpc[t] \notin {"none", "done"}

InitState ==
    /\ clipSeq = 0
    /\ clipText = "a"
    /\ file = DefaultPoll
    /\ instance = None
    /\ built = {}
    /\ running = [b \in Hosts |-> FALSE]
    /\ thread = [b \in Hosts |-> None]
    /\ config = [b \in Hosts |-> DefaultPoll]
    /\ last_seq = [b \in Hosts |-> 0]
    /\ last_text = [b \in Hosts |-> ""]
    /\ host = [h \in Hosts |-> Idle]
    /\ tpc = [t \in Threads |-> "none"]
    /\ tself = [t \in Threads |-> None]
    /\ poll_sec = [t \in Threads |-> 0]
    /\ current_seq = [t \in Threads |-> 0]
    /\ current_text = [t \in Threads |-> ""]
    /\ dispatched = <<>>
    /\ out = ""
    /\ serial = 0
    /\ halted = {}
    /\ quiet = [b \in Hosts |-> FALSE]
    /\ fault = FALSE
    /\ atStart = [b \in Hosts |-> DefaultPoll]
    /\ origin = [t \in Threads |-> 0]
    /\ ret = <<>>

\* The component after import: no bridge, no call.
Init ==
    /\ InitState
    /\ lastSrc = -1
    /\ call = NoCall

\* The same, with the origins of the dispatched texts kept.
InitOrder ==
    /\ InitState
    /\ lastSrc = 0
    /\ call = NoCall

\* Another process (the dictation software) writes text x to the clipboard:
\* the sequence number goes up by one. (A clipboard without text reads as "",
\* like one that cannot be opened: see get_clipboard_text.)
ClipboardWrite(x) ==
    /\ clipSeq < MaxSeq
    /\ clipSeq' = clipSeq + 1
    /\ clipText' = x
    /\ out' = ""
    /\ quiet' = [b \in Hosts |-> FALSE]
    /\ UNCHANGED auxVars
    /\ UNCHANGED <<file, instance, built, bridgeVars, host, threadVars,
                   dispatched, serial, halted, fault>>

\* ------------------------------------------------------------ host calls
\* get_bridge's test `_bridge_instance is None`.
BridgeMissing == instance = None

\* A trigger that never takes the stop() branch.
TriggerNeverStops(isrun) == FALSE

\* ToggleBridge.trigger's test `if bridge.is_running():`, on the value isrun
\* that is_running() returns.
TriggerStops(isrun) == isrun

\* Where a host thread goes on once get_bridge() has returned the bridge, whose
\* flag is isrun: trigger() chooses stop() or start().
AfterGet(op, isrun) ==
    CASE op = "toggle" -> IF TriggerStops(isrun) THEN "stop" ELSE "start"
      [] op = "start" -> "start"
      [] op = "stop" -> "stop"
      [] op = "settings" -> "setcfg"

\* A host thread returns from its call (its locals are gone).
Return(h) ==
    /\ host' = [host EXCEPT ![h] = Idle]
    /\ UNCHANGED serial

\* A host thread goes on to pc p of its call.
Goto(h, p) ==
    /\ host' = [host EXCEPT ![h].pc = p]
    /\ UNCHANGED serial

\* The calls that set or test the flag of the bridge.
FlagOps == {"toggle", "start", "stop"}

\* Host thread g is inside such a call.
InFlagCall(g) ==
    \/ host[g].pc = "new" /\ host[g].op \in FlagOps
    \/ host[g].pc \in {"start", "start_text", "start_spawn", "stop", "joining"}

\* What the calls so far ask of the bridge, after one more call op of host
\* thread h: a toggle asks for the other state, start() for Running, stop()
\* for Stopped.
Asked(h, op) ==
    IF op \notin FlagOps THEN serial
    ELSE IF serial = -1 \/ \E g \in Hosts \ {h} : InFlagCall(g)
      THEN -1
    ELSE CASE op = "toggle" -> 1 - serial
           [] op = "start" -> 1
           [] op = "stop" -> 0

\* A host thread begins a call: ToggleBridge.trigger, the settings dialog
\* closed with OK on poll value v (load_config, the dialog, save_config, which
\* may fail to write the file), or start()/stop() on the bridge get_bridge()
\* returns. The step is get_bridge's test of _bridge_instance and, with a
\* bridge and in trigger(), the test of is_running(): the flag is written by
\* start() and stop() only, which one host thread calls. The call is kept in
\* op while get_bridge() has to construct the bridge.
Call(h, op, v) ==
    /\ host[h].pc = "idle"
    /\ IF op = "settings"
          THEN file' \in {v, file}
          ELSE v = DefaultPoll /\ UNCHANGED file
    /\ host' = [host EXCEPT ![h] =
          [pc |-> IF BridgeMissing THEN "new"
                  ELSE AfterGet(op, running[instance]),
           op |-> IF BridgeMissing THEN op ELSE "none",
           bridge |-> instance,
           val |-> v,
           join |-> None]]
    /\ serial' = Asked(h, op)
    /\ out' = ""
    /\ UNCHANGED auxVars
    /\ UNCHANGED <<clipVars, instance, built, bridgeVars, threadVars,
                   dispatched, halted, quiet, fault>>

\* get_bridge constructs the bridge (ClipboardBridge.__init__) and stores it
\* in _bridge_instance; trigger() finds the new bridge not running.
Construct(h) ==
    /\ host[h].pc = "new"
    /\ built' = built \cup {h}
    /\ running' = [running EXCEPT ![h] = FALSE]
    /\ thread' = [thread EXCEPT ![h] = None]
    /\ config' = [config EXCEPT ![h] = load_config]
    /\ last_seq' = [last_seq EXCEPT ![h] = get_clipboard_seq]
    /\ \E x \in get_clipboard_text :
          /\ last_text' = [last_text EXCEPT ![h] = x]
          /\ Fails(x # clipText)
    /\ instance' = h
    /\ host' = [host EXCEPT ![h].bridge = h,
                             ![h].op = "none",
                             ![h].pc = AfterGet(host[h].op, FALSE)]
    /\ out' = ""
    /\ UNCHANGED auxVars
    /\ UNCHANGED <<clipVars, file, threadVars, dispatched, serial, halted,
                   quiet>>

\* SettingsDialog._open_settings, after get_bridge: bridge.config = config.
SetConfig(h) ==
    /\ host[h].pc = "setcfg"
    /\ config' = [config EXCEPT ![host[h].bridge] = host[h].val]
    /\ Return(h)
    /\ out' = ""
    /\ UNCHANGED auxVars
    /\ UNCHANGED <<clipVars, file, instance, built, running, thread, last_seq,
                   last_text, threadVars, dispatched, halted, quiet, fault>>

\* A start() without its test of the flag.
StartUnguarded(b) == FALSE

\* start()'s test `if self.running: return`.
AlreadyRunning(b) == running[b]

\* start(): return if running; else set the flag and
\* self.last_seq = get_clipboard_seq().
Start(h) ==
    /\ host[h].pc = "start"
    /\ IF AlreadyRunning(host[h].bridge)
          THEN /\ Return(h)
               /\ UNCHANGED <<running, last_seq>>
          ELSE /\ running' = [running EXCEPT ![host[h].bridge] = TRUE]
               /\ last_seq' = [last_seq EXCEPT
                                 ![host[h].bridge] = get_clipboard_seq]
               /\ Goto(h, "start_text")
    /\ out' = ""
    /\ atStart' = IF AlreadyRunning(host[h].bridge) THEN atStart
                 ELSE [atStart EXCEPT ![host[h].bridge] = config[host[h].bridge]]
    /\ UNCHANGED <<pureVars, orderVars>>
    /\ UNCHANGED <<clipVars, file, instance, built, thread, config, last_text,
                   threadVars, dispatched, halted, quiet, fault>>

\* start(): self.last_text = get_clipboard_text().
StartText(h) ==
    /\ host[h].pc = "start_text"
    /\ \E x \in get_clipboard_text :
          /\ last_text' = [last_text EXCEPT ![host[h].bridge] = x]
          /\ Fails(x # clipText)
    /\ Goto(h, "start_spawn")
    /\ out' = ""
    /\ UNCHANGED auxVars
    /\ UNCHANGED <<clipVars, file, instance, built, running, thread, config,
                   last_seq, threadVars, dispatched, halted, quiet>>

\* The thread object threading.Thread(...) creates: the first unused one.
NewThread == CHOOSE t \in Threads :
    tpc[t] = "none" /\ \A u \in Threads : u < t => tpc[u] # "none"

\* start(): create and start the loop thread, notify, return.
StartSpawn(h) ==
    /\ host[h].pc = "start_spawn"
    /\ \E t \in Threads : tpc[t] = "none"
    /\ thread' = [thread EXCEPT ![host[h].bridge] = NewThread]
    /\ tpc' = [tpc EXCEPT ![NewThread] = "init"]
    /\ tself' = [tself EXCEPT ![NewThread] = host[h].bridge]
    /\ Return(h)
    /\ quiet' = [quiet EXCEPT ![host[h].bridge] = TRUE]
    /\ out' = "started"
    /\ UNCHANGED auxVars
    /\ UNCHANGED <<clipVars, file, instance, built, running, config, last_seq,
                   last_text, poll_sec, current_seq, current_text, dispatched,
                   halted, fault>>

\* stop(): clear the flag; with a thread, call its join(timeout=2); without
\* one, notify and return.
Stop(h) ==
    /\ host[h].pc = "stop"
    /\ running' = [running EXCEPT ![host[h].bridge] = FALSE]
    /\ quiet' = [quiet EXCEPT ![host[h].bridge] = FALSE]
    /\ IF thread[host[h].bridge] # None
          THEN /\ host' = [host EXCEPT ![h].pc = "joining",
                                       ![h].join = thread[host[h].bridge]]
               /\ halted' = halted \cup
                     {t \in {thread[host[h].bridge]} : Alive(t)}
               /\ out' = ""
               /\ UNCHANGED serial
          ELSE /\ Return(h)
               /\ out' = "stopped"
               /\ UNCHANGED halted
    /\ UNCHANGED auxVars
    /\ UNCHANGED <<clipVars, file, instance, built, thread, config, last_seq,
                   last_text, threadVars, dispatched, fault>>

\* stop(), after join: self.thread = None, notify, return.
AfterJoin(h) ==
    /\ thread' = [thread EXCEPT ![host[h].bridge] = None]
    /\ Return(h)
    /\ out' = "stopped"
    /\ UNCHANGED auxVars
    /\ UNCHANGED <<clipVars, file, instance, built, running, config, last_seq,
                   last_text, threadVars, dispatched, halted, quiet>>

\* join() returns because the loop thread has finished.
JoinReturn(h) ==
    /\ host[h].pc = "joining"
    /\ ~Alive(host[h].join)
    /\ AfterJoin(h)
    /\ UNCHANGED fault

\* A loop thread is where it may stay for the two seconds of a join: inside
\* the call into the host (which may wait for what the caller of stop()
\* holds), or asleep for at least as long.
Blocked(t) ==
    \/ tpc[t] = "in_host"
    \/ tpc[t] = "sleep" /\ poll_sec[t] >= JoinTimeoutMs

\* join() returns because its two seconds have passed; the thread lives on.
JoinTimeout(h) ==
    /\ host[h].pc = "joining"
    /\ Alive(host[h].join)
    /\ Blocked(host[h].join)
    /\ AfterJoin(h)
    /\ fault' = TRUE

\* ------------------------------------------------------------ loop thread
\* Steps of one thread that touch different shared variables are taken
\* together where every interleaving of another thread between them gives the
\* same result as one before or after both: reading the configuration and the
\* first test of the flag; waking up, the test of the flag and the sample of
\* the sequence number; the comparison of the sequence number and the read of
\* the text; the comparison of the text and the call of
\* _process_clipboard_text.

\* A loop thread goes on to pc p.
Step(t, p) == tpc' = [tpc EXCEPT ![t] = p]

\* The locals of an iteration are dead once it has ended.
EndIteration(t) ==
    /\ current_seq' = [current_seq EXCEPT ![t] = 0]
    /\ current_text' = [current_text EXCEPT ![t] = ""]

\* A loop whose try statement lies around the while statement: an
\* exception ends the loop.
ExceptionEndsLoop == "done"

\* Where the loop goes on after `except Exception: traceback.print_exc()`.
AfterException == "sleep"

\* `while self.running:` and, inside the try, current_seq =
\* get_clipboard_seq(), which returns (ok) or raises. With the flag cleared the
\* thread ends.
Iterate(t, ok) ==
    IF running[tself[t]]
      THEN /\ IF ok
                THEN /\ current_seq' = [current_seq EXCEPT
                                          ![t] = get_clipboard_seq]
                     /\ Step(t, "cmp_seq")
                     /\ out' = ""
                ELSE /\ Step(t, AfterException)
                     /\ out' = "traceback"
                     /\ UNCHANGED current_seq
           /\ Fails(~ok)
           /\ UNCHANGED halted
      ELSE /\ ok
           /\ UNCHANGED fault
           /\ Step(t, "done")
           /\ halted' = halted \ {t}
           /\ out' = ""
           /\ UNCHANGED current_seq

\* _monitor_loop begins: poll_sec = self.config.get("poll_interval_ms", 300)
\* / 1000.0 (kept in milliseconds), then the first test of the flag.
LoopEnter(t, ok) ==
    /\ tpc[t] = "init"
    /\ poll_sec' = [poll_sec EXCEPT
                      ![t] = IF running[tself[t]] THEN config[tself[t]] ELSE 0]
    /\ Iterate(t, ok)
    /\ UNCHANGED auxVars
    /\ UNCHANGED <<clipVars, file, instance, built, bridgeVars, host, tself,
                   current_text, dispatched, serial, quiet>>

\* time.sleep(poll_sec) ends; the next test of the flag.
LoopTop(t, ok) ==
    /\ tpc[t] = "sleep"
    /\ poll_sec' = [poll_sec EXCEPT
                      ![t] = IF running[tself[t]] THEN poll_sec[t] ELSE 0]
    /\ Iterate(t, ok)
    /\ UNCHANGED auxVars
    /\ UNCHANGED <<clipVars, file, instance, built, bridgeVars, host, tself,
                   current_text, dispatched, serial, quiet>>

\* A loop that reads the text in every iteration.
SeqAlwaysChanged(t) == TRUE

\* The test `current_seq != self.last_seq`.
SeqChanged(t) == current_seq[t] # last_seq[tself[t]]

\* if current_seq != self.last_seq: self.last_seq = current_seq;
\* current_text = get_clipboard_text(), which returns a text or raises.
CmpSeq(t, ok) ==
    /\ tpc[t] = "cmp_seq"
    /\ IF SeqChanged(t)
          THEN /\ last_seq' = [last_seq EXCEPT ![tself[t]] = current_seq[t]]
               /\ current_seq' = [current_seq EXCEPT ![t] = 0]
               /\ IF ok
                    THEN /\ \E x \in get_clipboard_text :
                              /\ current_text' =
                                    [current_text EXCEPT ![t] = x]
                              /\ Fails(x # clipText)
                         /\ Step(t, "cmp_text")
                         /\ out' = ""
                    ELSE /\ Step(t, AfterException)
                         /\ out' = "traceback"
                         /\ fault' = TRUE
                         /\ UNCHANGED current_text
          ELSE /\ ok
               /\ Step(t, "sleep")
               /\ EndIteration(t)
               /\ out' = ""
               /\ UNCHANGED <<last_seq, fault>>
    /\ origin' = [origin EXCEPT
                    ![t] = IF Tracked /\ SeqChanged(t) /\ ok
                           THEN get_clipboard_seq ELSE 0]
    /\ UNCHANGED <<pureVars, atStart, lastSrc>>
    /\ UNCHANGED <<clipVars, file, instance, built, running, thread, config,
                   last_text, host, tself, poll_sec, dispatched, serial,
                   halted, quiet>>

\* The record of dispatches with text x added: the dispatch before, and x.
Record(x) ==
    IF dispatched = <<>>
      THEN <<x>>
      ELSE <<dispatched[Len(dispatched)], x>>

\* A test that forgets the comparison with self.last_text.
TextNonEmpty(t) == current_text[t] # ""

\* The test `current_text and current_text != self.last_text`.
TextIsNew(t) == current_text[t] # "" /\ current_text[t] # last_text[tself[t]]

\* if current_text and current_text != self.last_text:
\*     self.last_text = current_text
\*     self._process_clipboard_text(current_text)
\* The text is classified and the call into the host (insert or action) begins.
CmpText(t) ==
    /\ tpc[t] = "cmp_text"
    /\ IF TextIsNew(t)
          THEN /\ last_text' = [last_text EXCEPT ![tself[t]] = current_text[t]]
               /\ dispatched' = Record(current_text[t])
               /\ Step(t, "in_host")
          ELSE /\ Step(t, "sleep")
               /\ UNCHANGED <<last_text, dispatched>>
    /\ EndIteration(t)
    /\ out' = ""
    /\ origin' = [origin EXCEPT ![t] = 0]
    /\ lastSrc' = IF Tracked /\ TextIsNew(t) THEN origin[t] ELSE lastSrc
    /\ UNCHANGED <<pureVars, atStart>>
    /\ UNCHANGED <<clipVars, file, instance, built, running, thread, config,
                   last_seq, host, tself, poll_sec, histVars>>

\* The call into the host returns, or fails: _insert_text and
\* _dispatch_uno_command catch what the host raises and print the traceback.
HostReturn(t, ok) ==
    /\ tpc[t] = "in_host"
    /\ Step(t, "sleep")
    /\ out' = IF ok THEN "" ELSE "traceback"
    /\ Fails(~ok)
    /\ UNCHANGED auxVars
    /\ UNCHANGED <<clipVars, file, instance, built, bridgeVars, host, tself,
                   poll_sec, current_seq, current_text, dispatched, serial,
                   halted, quiet>>

\* ------------------------------------------------------------ voice commands
\* A text is a sequence of characters: two letters in both cases, and the
\* space for the whitespace str.strip() removes.
Letters == {"a", "b"}
Capitals == {"A", "B"}
Whitespace == {" "}
Chars == Letters \cup Capitals \cup Whitespace
Strings == UNION {[1 .. n -> Chars] : n \in 0 .. MaxLen}

\* str.lower() and str.upper() on one character.
LowerChar(c) == CASE c = "A" -> "a" [] c = "B" -> "b" [] OTHER -> c
UpperChar(c) == CASE c = "a" -> "A" [] c = "b" -> "B" [] OTHER -> c

\* A lower() that changes nothing.
lowerKeepsCase(text) == text

\* str.lower().
lower(text) == [i \in DOMAIN text |-> LowerChar(text[i])]

\* str.upper().
upper(text) == [i \in DOMAIN text |-> UpperChar(text[i])]

\* str.lstrip(), str.rstrip() and str.strip().
RECURSIVE lstrip(_)
lstrip(text) ==
    IF text # <<>> /\ Head(text) \in Whitespace
      THEN lstrip(Tail(text)) ELSE text

RECURSIVE rstrip(_)
rstrip(text) ==
    IF text # <<>> /\ text[Len(text)] \in Whitespace
      THEN rstrip(SubSeq(text, 1, Len(text) - 1)) ELSE text

strip(text) == rstrip(lstrip(text))

\* ACTION_COMMANDS and VOICE_COMMANDS: of each, a phrase of one word and a
\* phrase of two words. As in the source, the keys are in lower case, without
\* whitespace around them, and no key is in both tables.
\* The values (a command URL, a substitution) are texts of one item.
ACTION_COMMANDS ==
    (<<"b">> :> <<".uno:Bold">>) @@ (<<"a", " ", "b">> :> <<".uno:Undo">>)
VOICE_COMMANDS ==
    (<<"a">> :> <<".">>) @@ (<<"b", " ", "a">> :> <<"\n">>)

\* A text table that shares the key "b" with ACTION_COMMANDS.
Colliding == (<<"a">> :> <<".">>) @@ (<<"b">> :> <<"!">>)

\* The pairs of tables process_voice_commands is called with.
Tables == {<<ACTION_COMMANDS, VOICE_COMMANDS>>, <<ACTION_COMMANDS, Colliding>>}

\* A lookup that tries the text table first.
TextFirst(key, actions, voice) ==
    IF key \in DOMAIN voice THEN "text"
    ELSE IF key \in DOMAIN actions THEN "action"
    ELSE "insert"

\* The order of the two lookups: `if lower in ACTION_COMMANDS`, then
\* `if lower in VOICE_COMMANDS`.
Lookup(key, actions, voice) ==
    IF key \in DOMAIN actions THEN "action"
    ELSE IF key \in DOMAIN voice THEN "text"
    ELSE "insert"

\* A match that returns the phrase instead of its substitution.
TextIsPhrase(key, voice) == <<"text", key>>

\* return ("text", VOICE_COMMANDS[lower])
TextMatch(key, voice) == <<"text", voice[key]>>

\* A pass-through of the normalized text.
NoMatchNormalized(text) == <<"insert", lower(strip(text))>>

\* return ("insert", text)
NoMatch(text) == <<"insert", text>>

\* process_voice_commands(text), with the two tables it reads.
process_voice_commands(text, actions, voice) ==
    LET key == lower(strip(text))
        type == Lookup(key, actions, voice)
    IN  CASE type = "action" -> <<"action", actions[key]>>
          [] type = "text" -> TextMatch(key, voice)
          [] type = "insert" -> NoMatch(text)

\* The calls into the host: _dispatch_uno_command(cmd_url) ends in
\* executeDispatch(frame, cmd_url, ...), _insert_text(text) in
\* insertString(text_cursor, text, ...).
_dispatch_uno_command(cmd_url) == [host |-> "executeDispatch", arg |-> cmd_url]
_insert_text(text) == [host |-> "insertString", arg |-> text]

\* _process_clipboard_text(text): classify, then call the host.
_process_clipboard_text(text, actions, voice) ==
    LET r == process_voice_commands(text, actions, voice)
    IN  IF r[1] = "action" THEN _dispatch_uno_command(r[2])
        ELSE IF r[1] = "text" THEN _insert_text(r[2])
        ELSE _insert_text(text)

\* ------------------------------------------------------------ pure calls
\* The calls of the functions without state.
Calls ==
    {[fn |-> f, text |-> x, actions |-> tb[1], voice |-> tb[2]] :
        f \in {"process_voice_commands", "_process_clipboard_text"},
        x \in Strings, tb \in Tables}
      \cup {[fn |-> "load_config", content |-> c] : c \in Contents}

\* process_voice_commands is called and returns.
Classify ==
    /\ call.fn = "process_voice_commands"
    /\ ret = <<>>
    /\ ret' = <<process_voice_commands(call.text, call.actions, call.voice)>>
    /\ UNCHANGED <<clipVars, file, instance, built, bridgeVars, host,
                   threadVars, dispatched, out, histVars, atStart, orderVars,
                   call>>

\* _process_clipboard_text is called and returns; ret is the call it has made
\* into the host.
Process ==
    /\ call.fn = "_process_clipboard_text"
    /\ ret = <<>>
    /\ ret' = <<_process_clipboard_text(call.text, call.actions, call.voice)>>
    /\ UNCHANGED <<clipVars, file, instance, built, bridgeVars, host,
                   threadVars, dispatched, out, histVars, atStart, orderVars,
                   call>>

\* load_config is called and returns.
Load ==
    /\ call.fn = "load_config"
    /\ ret = <<>>
    /\ ret' = <<load_config_of(call.content)>>
    /\ UNCHANGED <<clipVars, file, instance, built, bridgeVars, host,
                   threadVars, dispatched, out, histVars, atStart, orderVars,
                   call>>

\* ------------------------------------------------------------ specification
\* The host thread of the deployed component.
Main == {1}

\* The calls of a host thread.
HostStep(h) ==
    \/ Construct(h)
    \/ Start(h)
    \/ StartText(h)
    \/ StartSpawn(h)
    \/ Stop(h)
    \/ JoinReturn(h)
    \/ JoinTimeout(h)

\* The steps of a loop thread.
LoopStep(t) ==
    \/ \E ok \in BOOLEAN : LoopEnter(t, ok)
    \/ \E ok \in BOOLEAN : LoopTop(t, ok)
    \/ \E ok \in BOOLEAN : CmpSeq(t, ok)
    \/ CmpText(t)
    \/ \E ok \in BOOLEAN : HostReturn(t, ok)

\* One host thread toggles the bridge and calls its start() and stop(); the
\* clipboard is written by other processes.
Next ==
    \/ \E x \in Texts : ClipboardWrite(x)
    \/ \E h \in Main, op \in FlagOps : Call(h, op, DefaultPoll)
    \/ \E h \in Main : HostStep(h)
    \/ \E t \in Threads : LoopStep(t)

Spec == Init /\ [][Next]_vars

\* The two entry points called from two host threads: the toggle on one,
\* the settings dialog (whose execute() keeps its caller until the dialog is
\* closed) on the other. The clipboard is left alone, so that no loop thread
\* finds a changed sequence number.
NextHosts ==
    \/ \E v \in Polls : Call(2, "settings", v)
    \/ Call(1, "toggle", DefaultPoll)
    \/ \E h \in Hosts : SetConfig(h)
    \/ \E h \in Hosts : HostStep(h)
    \/ \E t \in Threads, ok \in BOOLEAN : LoopEnter(t, ok)
    \/ \E t \in Threads, ok \in BOOLEAN : LoopTop(t, ok)
    \/ \E t \in Threads, ok \in BOOLEAN : CmpSeq(t, ok)

SpecHosts == Init /\ [][NextHosts]_vars

\* The runs of Spec, with the origins of the dispatched texts kept.
SpecOrder == InitOrder /\ [][Next]_vars

\* One call of a function without state, on any of its inputs.
InitPure ==
    /\ InitState
    /\ lastSrc = -1
    /\ call \in Calls

NextPure == Classify \/ Process \/ Load

SpecPure == InitPure /\ [][NextPure]_vars

\* ------------------------------------------------------------ properties
\* The loop threads that are alive.
AliveThreads == {t \in Threads : Alive(t)}

\* Host thread h takes a step.
HostMoves(h) == host'[h] # host[h]

\* Loop thread t takes a step that moves it on.
LoopMoves(t) == tpc'[t] # tpc[t]

\* Loop thread t begins a dispatch in this step.
Dispatches(t) == tpc[t] # "in_host" /\ tpc'[t] = "in_host"

\* C1: start() on a bridge that is Running returns at once: the bridge stays
\* Running, no thread is spawned, self.thread, last_seq and last_text keep
\* their values, and nothing is notified.
C1_StartWhileRunningIsNoop ==
    [][\A h \in Hosts :
         (host[h].pc = "start" /\ running[host[h].bridge] /\ HostMoves(h))
           => /\ host'[h] = Idle
              /\ running'[host[h].bridge]
              /\ UNCHANGED <<bridgeVars, threadVars, dispatched>>
              /\ out' = ""]_vars

\* C1, its case: start() has been called on a Running bridge whose loop
\* thread is alive.
C1_Witness ==
    \E h \in Hosts :
        /\ host[h].pc = "start"
        /\ running[host[h].bridge]
        /\ thread[host[h].bridge] # None
        /\ Alive(thread[host[h].bridge])

\* C2: stop() on a bridge that is Stopped (flag clear, no thread) changes
\* nothing and notifies nothing.
C2_StopWhileStoppedIsNoop ==
    [][\A h \in Hosts :
         (/\ host[h].pc = "stop"
          /\ ~running[host[h].bridge]
          /\ thread[host[h].bridge] = None
          /\ HostMoves(h))
           => /\ UNCHANGED bridgeVars
              /\ out' # "stopped"]_vars

\* C3: at most one loop thread is alive, and at most one is inside a
\* dispatch.
C3_OneLoopNoOverlap ==
    /\ Cardinality(AliveThreads) <= 1
    /\ Cardinality({t \in Threads : tpc[t] = "in_host"}) <= 1

\* C4: a loop thread ends only when it finds its bridge's flag cleared, and
\* a step of an iteration that fails (a traceback is printed) leaves the
\* thread in the loop, at its sleep before the next iteration.
C4_FailureKeepsLoopAlive ==
    [][\A t \in Threads :
         /\ (Alive(t) /\ tpc'[t] = "done") => ~running[tself[t]]
         /\ (Alive(t) /\ LoopMoves(t) /\ out' = "traceback")
               => tpc'[t] = "sleep"]_vars

\* C4, its case: an iteration has just failed while the bridge is Running,
\* and its thread is alive at the sleep.
C4_Witness ==
    \E t \in Threads :
        out = "traceback" /\ tpc[t] = "sleep" /\ running[tself[t]]

\* C5: an iteration whose sampled sequence number equals last_seq reads no
\* text, dispatches nothing and leaves last_seq and last_text alone.
C5_SameSeqNoDispatch ==
    [][\A t \in Threads :
         (/\ tpc[t] = "cmp_seq"
          /\ current_seq[t] = last_seq[tself[t]]
          /\ LoopMoves(t))
           => /\ tpc'[t] = "sleep"
              /\ current_text'[t] = ""
              /\ UNCHANGED <<last_seq, last_text, dispatched>>]_vars

\* C5, its case: after a dispatch, an iteration has sampled a sequence number
\* equal to last_seq.
C5_Witness ==
    \E t \in Threads :
        /\ tpc[t] = "cmp_seq"
        /\ current_seq[t] = last_seq[tself[t]]
        /\ current_seq[t] > 0
        /\ dispatched # <<>>

\* C6, as claimed: a text is never dispatched when it equals the text of the
\* dispatch before it (here: in runs where every clipboard read has returned
\* the clipboard's text, nothing has raised and no join has timed out).
C6_NoRepeatedDispatch ==
    (~fault /\ Len(dispatched) >= 2)
      => dispatched[Len(dispatched)] # dispatched[Len(dispatched) - 1]

\* C6, amended: an iteration whose text is empty or equals the stored
\* last_text (the text last dispatched, or the baseline start() captured
\* since) dispatches nothing and leaves last_text alone.
C6_KnownTextNoDispatch ==
    [][\A t \in Threads :
         (/\ tpc[t] = "cmp_text"
          /\ (current_text[t] = "" \/ current_text[t] = last_text[tself[t]])
          /\ LoopMoves(t))
           => /\ tpc'[t] = "sleep"
              /\ UNCHANGED <<last_text, dispatched>>]_vars

\* C6, its case: the sequence number has changed and the text read is the
\* text dispatched last.
C6_Witness ==
    \E t \in Threads :
        /\ tpc[t] = "cmp_text"
        /\ dispatched # <<>>
        /\ current_text[t] = dispatched[Len(dispatched)]
        /\ current_text[t] = last_text[tself[t]]

\* C7: no dispatch begins on a bridge whose start() has returned and whose
\* clipboard has not been written since.
C7_BaselineNotDispatched ==
    [][\A t \in Threads : Dispatches(t) => ~quiet[tself[t]]]_vars

\* C8: at most one ClipboardBridge is ever constructed, and every host
\* thread that holds a bridge holds that one.
C8_OneBridge ==
    /\ Cardinality(built) <= 1
    /\ \A h \in Hosts : host[h].bridge # None => host[h].bridge = instance

\* C9: once stop() has cleared the flag, the loop thread it stops begins no
\* new iteration: from its sleep (or its start) it can only end.
C9_HaltedBeginsNoIteration ==
    [][\A t \in halted :
         (tpc[t] \in {"init", "sleep"} /\ LoopMoves(t))
           => tpc'[t] = "done"]_vars

\* C10: between calls, the bridge is Running exactly when the calls so far,
\* made one after the other, ask for it: each toggle flips is_running(), so
\* that after n toggles from Stopped the bridge is Running exactly when n is
\* odd (a direct start() counts as a toggle from Stopped, a direct stop() as
\* a toggle from Running).
C10_ToggleFlips ==
    ((\A h \in Hosts : host[h].pc = "idle") /\ serial # -1)
      => /\ instance = None => serial = 0
         /\ instance # None => (running[instance] <=> serial = 1)

\* C10, its case: the bridge is Running for the second time (its second loop
\* thread has been spawned), after an odd number of flips.
C10_Witness ==
    /\ \A h \in Hosts : host[h].pc = "idle"
    /\ serial = 1
    /\ tpc[2] # "none"
    /\ instance # None
    /\ running[instance]

\* The call made is one of the classifier, and has returned.
Classified ==
    call.fn \in {"process_voice_commands", "_process_clipboard_text"}
      /\ ret # <<>>

\* The text of the call, trimmed and in lower case.
Normalized == lower(strip(call.text))

\* C11: for a phrase P of the action table, process_voice_commands(P),
\* process_voice_commands(P in upper case) and process_voice_commands(P with
\* a space before and after it) all return ("action", ACTION_COMMANDS[P]).
C11_CaseAndSpaceInsensitive ==
    (call.fn = "process_voice_commands" /\ ret # <<>>)
      => \A P \in DOMAIN call.actions :
            call.text \in {P, upper(P), <<" ">> \o P \o <<" ">>}
              => ret[1] = <<"action", call.actions[P]>>

\* C11, its case: the phrase of two words, in upper case and with a space
\* before and after it, has been classified.
C11_Witness ==
    /\ call.fn = "process_voice_commands"
    /\ ret # <<>>
    /\ call.text = <<" ", "A", " ", "B", " ">>
    /\ ret[1][1] = "action"

\* C12: a text whose trimmed, lower-cased form is a key of neither table is
\* returned as ("insert", text) with the text as given, and
\* _process_clipboard_text hands that same text to the host's insertString.
C12_UnknownPassesThrough ==
    (Classified /\ Normalized \notin DOMAIN call.actions \cup DOMAIN call.voice)
      => IF call.fn = "process_voice_commands"
           THEN ret[1] = <<"insert", call.text>>
           ELSE ret[1] = [host |-> "insertString", arg |-> call.text]

\* C12, its case: a text in neither table, with a capital and a space around
\* it, has been handed to the host.
C12_Witness ==
    /\ call.fn = "_process_clipboard_text"
    /\ ret # <<>>
    /\ call.text = <<" ", "A", "a", " ">>
    /\ Normalized \notin DOMAIN call.actions \cup DOMAIN call.voice
    /\ ret[1].arg = call.text

\* C13: a phrase P of the text table that is no key of the action table is
\* returned as ("text", VOICE_COMMANDS[P]), and _process_clipboard_text hands
\* the substitution, not P, to the host's insertString.
C13_TextSubstitution ==
    (Classified /\ call.text \in DOMAIN call.voice \ DOMAIN call.actions)
      => IF call.fn = "process_voice_commands"
           THEN ret[1] = <<"text", call.voice[call.text]>>
           ELSE ret[1] = [host |-> "insertString",
                          arg |-> call.voice[call.text]]

\* C13, its case: the phrase of two words of the text table has been
\* dispatched.
C13_Witness ==
    /\ call.fn = "_process_clipboard_text"
    /\ ret # <<>>
    /\ call.text = <<"b", " ", "a">>
    /\ ret[1].host = "insertString"

\* C14: a text whose normalized form is a key of both tables is returned as
\* ("action", value of the action table), and every call returns one of the
\* three types.
C14_ActionPrecedence ==
    (call.fn = "process_voice_commands" /\ ret # <<>>)
      => /\ ret[1][1] \in {"action", "text", "insert"}
         /\ Normalized \in DOMAIN call.actions \cap DOMAIN call.voice
              => ret[1] = <<"action", call.actions[Normalized]>>

\* C14, its case: a text whose normalized form is a key of both tables has
\* been classified.
C14_Witness ==
    /\ call.fn = "process_voice_commands"
    /\ ret # <<>>
    /\ Normalized \in DOMAIN call.actions \cap DOMAIN call.voice
    /\ call.text # Normalized

\* C15: on a settings file that is missing, unreadable, not JSON, or JSON but
\* no object, load_config returns the defaults.
C15_MalformedGivesDefaults ==
    (call.fn = "load_config" /\ ret # <<>> /\ call.content.kind # "object")
      => ret[1] = defaults

\* C16: the poll interval a loop uses is the poll_interval_ms the settings
\* of its bridge held when the start() that created it was called: on a
\* running bridge, the loop thread start() created, once it has read its
\* interval, has the value start() found; a later change of the settings
\* (also one right after start() has returned) does not change it.
C16_IntervalIsSnapshot ==
    \A t \in Threads :
        (/\ Alive(t)
         /\ tpc[t] # "init"
         /\ running[tself[t]]
         /\ thread[tself[t]] = t)
        => poll_sec[t] = atStart[tself[t]]

\* Host thread h executes a statement of start() that assigns self.last_seq
\* or self.last_text.
WritesLastSeen(h) ==
    /\ HostMoves(h)
    /\ \/ host[h].pc = "start" /\ ~AlreadyRunning(host[h].bridge)
       \/ host[h].pc = "start_text"

\* C17: the pair last_seq / last_text belongs to the loop thread alone: while
\* a loop thread of a bridge is alive, no caller of start() or stop() assigns
\* that bridge's last_seq or last_text.
C17_LoopOwnsLastSeen ==
    [][\A h \in Hosts :
          WritesLastSeen(h)
          => ~\E t \in Threads : Alive(t) /\ tself[t] = host[h].bridge]_vars

\* The last stop() of bridge b has returned and start() has not been called
\* since: the flag is cleared, and no caller is inside stop()'s join or at
\* the beginning of start().
StoppedFor(b) ==
    /\ ~running[b]
    /\ \A h \in Hosts :
          host[h].bridge = b => host[h].pc \notin {"joining", "start"}

\* C18: once stop() has returned, and until start() is called again, no
\* loop thread of the bridge is inside a call of the host's insert or
\* action dispatch, whether join() ended with the thread or timed out.
C18_NoDispatchAfterStop ==
    \A t \in Threads : tpc[t] = "in_host" => ~StoppedFor(tself[t])

\* The loop threads of bridge b.
LoopsOf(b) == {t \in Threads : Alive(t) /\ tself[t] = b}

\* Bridge b is Running with no call of start() or stop() under way, its
\* loop is between two iterations, and the clipboard holds a non-empty text
\* that differs from the last text b has processed, itself a text that was
\* read from the clipboard.
Pending(b) ==
    /\ running[b]
    /\ \A h \in Hosts : host[h] = Idle
    /\ LoopsOf(b) # {}
    /\ \A t \in LoopsOf(b) : tpc[t] = "sleep"
    /\ clipText # ""
    /\ last_text[b] # ""
    /\ clipText # last_text[b]

\* C19: a changed text is dispatched in the end, also when the read of the
\* iteration that first noticed the change failed or returned nothing. In the
\* form a finite run can refute: while such a text waits to be dispatched,
\* the loop can still see the change, that is, the sequence number it
\* remembers is not yet the clipboard's (with equal numbers every later
\* iteration skips the read, and the text is never dispatched while the
\* clipboard stays as it is).
C19_ChangeStaysVisible ==
    \A b \in Hosts : Pending(b) => last_seq[b] # get_clipboard_seq

\* C20: each clipboard change is dispatched at most once, and in clipboard
\* order: every dispatch is of a text written to the clipboard later than
\* the text of the dispatch before it (the dispatched texts, over any starts,
\* stops and clipboard changes, are a subsequence of the clipboard's
\* contents, and no write is dispatched twice).
C20_OnceAndInOrder ==
    [][\A t \in Threads : Dispatches(t) => origin[t] > lastSrc]_vars
====
